---------------------------- MODULE Spec2Model ----------------------------
(***************************************************************************)
(* Model of the project-showcase backend: the request handlers of          *)
(* routes/projectRoutes.js and of the user routes, over the Project and    *)
(* User document schemas.                                                  *)
(*                                                                         *)
(* Conventions.                                                            *)
(*  - A JavaScript string is a sequence of one-character strings, so that  *)
(*    String.prototype.trim and the schema option trim:true are computed.  *)
(*  - A value that may be undefined (a missing body field, a missing       *)
(*    document path, null from a lookup) is a sequence of length 0 or 1:   *)
(*    <<>> is undefined/null, <<v>> is v.                                  *)
(*  - averageRating is kept in tenths (15 stands for 1.5): the code only   *)
(*    ever stores parseFloat(x.toFixed(1)).                                *)
(*  - A project's _id is its index in projects (creation order); a         *)
(*    comment's _id is drawn from the counter nextCid (ObjectIds are       *)
(*    fresh), and its createdAt is that creation number.                   *)
(***************************************************************************)
EXTENDS Integers, Sequences, FiniteSets, TLC

VARIABLES
    projects,   \* the Project collection, in creation order
    profiles,   \* the User collection: userId -> <<>> or <<document>>
    nextCid,    \* next fresh comment _id
    resp,       \* the response to the last request
    served,     \* number of requests served so far
    deleted,    \* history: the _ids of the comments deleted so far
    inflight,   \* the like and rate requests that run concurrently, by arrival
    versions    \* the version (__v) of each project document

vars == <<projects, profiles, nextCid, resp, served, deleted, inflight, versions>>

---------------------------------------------------------------------------
(* Bounds *)

MaxRequests == 4
MaxProjects == 1
MaxComments == 2

---------------------------------------------------------------------------
(* Values *)

Users == {"u1", "u2", "u3"}

\* What a request can carry in its Authorization header: nothing, a bearer
\* token the identity provider rejects, or a valid token of a user.
Credentials == Users \cup {"none", "bad"}

None == <<>>
Some(v) == <<v>>
IsSome(o) == Len(o) > 0
Get(o) == o[1]

EmptyStr == <<>>
Blank == <<" ">>
StrA == <<"a">>
StrB == <<"b">>
PadA == <<" ", "a", " ">>

\* Array.prototype.includes
Includes(seq, x) == \E i \in 1..Len(seq) : seq[i] = x

\* Array.prototype.filter((i) => i !== x)
RECURSIVE FilterOut(_, _)
FilterOut(seq, x) ==
    IF seq = <<>> THEN <<>>
    ELSE IF Head(seq) = x THEN FilterOut(Tail(seq), x)
         ELSE <<Head(seq)>> \o FilterOut(Tail(seq), x)

RECURSIVE TrimLeft(_)
TrimLeft(s) ==
    IF s = <<>> THEN <<>>
    ELSE IF Head(s) = " " THEN TrimLeft(Tail(s)) ELSE s

RECURSIVE TrimRight(_)
TrimRight(s) ==
    IF s = <<>> THEN <<>>
    ELSE IF s[Len(s)] = " " THEN TrimRight(SubSeq(s, 1, Len(s) - 1)) ELSE s

\* String.prototype.trim, and the setter of a schema path with trim: true
Trim(s) == TrimRight(TrimLeft(s))

\* JavaScript truthiness of a string
Truthy(s) == Len(s) > 0

---------------------------------------------------------------------------
(* Identity verifier *)

\* The name claim of a user's token: u1 signs in with a display name, the
\* others have none.
TokenName(u) == IF u = "u1" THEN Some(StrA) ELSE None

Email(u) == <<u, "@">>

\* verifyFirebaseToken: null without a Bearer header or when verifyIdToken
\* throws, else the decoded token.
\* Mutant of verifyFirebaseToken: a token that fails verification is taken
\* for u1's.
verifyFirebaseTokenUnchecked(cred) ==
    IF cred = "none" THEN None
    ELSE LET u == IF cred = "bad" THEN "u1" ELSE cred IN
         Some([uid |-> u, email |-> Email(u), name |-> TokenName(u)])

verifyFirebaseToken(cred) ==
    IF cred = "none" THEN None
    ELSE IF cred = "bad" THEN None
    ELSE Some([uid |-> cred, email |-> Email(cred), name |-> TokenName(cred)])

---------------------------------------------------------------------------
(* User schema (models/User) *)

\* The paths userSchema declares. Mongoose schemas are strict: a field that
\* is no path of the schema is dropped by create() and by findOneAndUpdate().
UserSchemaPaths == {"userId", "email", "name", "bio"}

\* The default of a schema path that a new document does not set: name and
\* bio default to "", email has no default and stays undefined.
UserSchemaDefault(path) == IF path = "email" THEN None ELSE EmptyStr

\* A new document as the User model stores it: the fields of doc that are
\* schema paths, and the defaults of the other paths.
UserSchemaCast(doc) ==
    [f \in UserSchemaPaths |->
        IF f \in DOMAIN doc THEN doc[f] ELSE UserSchemaDefault(f)]

\* An existing document after an update: the update's fields that are schema
\* paths are set, everything else is kept.
UserSchemaUpdate(user, update) ==
    [f \in DOMAIN user |->
        IF f \in (DOMAIN update) \cap UserSchemaPaths THEN update[f] ELSE user[f]]

\* Reading user.isProfileComplete from a stored document: "undefined" when
\* the document has no such field.
ReadIsProfileComplete(user) ==
    IF "isProfileComplete" \in DOMAIN user THEN user.isProfileComplete
    ELSE "undefined"

\* User.findOne({ userId })
FindUser(userId) == profiles[userId]

\* email is a unique path: the index holds one entry per stored document (a
\* document without email is indexed as null), and an insert whose entry is
\* already there fails.
EmailTaken(email) ==
    \E u \in Users : IsSome(profiles[u]) /\ Get(profiles[u]).email = email

---------------------------------------------------------------------------
(* Project schema (models/Project) *)

\* ratingSchema: userId required, value required with min 1 and max 5.
RatingValid(r) == IsSome(r.value) /\ Get(r.value) >= 1 /\ Get(r.value) <= 5

\* commentSchema: userId, userEmail and text are required (a required
\* string must be non-empty).
CommentValid(c) == IsSome(c.text) /\ Len(Get(c.text)) > 0

\* Casting by projectSchema: the String paths with trim: true are trimmed,
\* missing paths take their defaults.
ProjectSchemaCast(doc) ==
    [title         |-> IF IsSome(doc.title) THEN Some(Trim(Get(doc.title))) ELSE None,
     description   |-> IF IsSome(doc.description)
                       THEN Some(Trim(Get(doc.description))) ELSE None,
     tags          |-> IF IsSome(doc.tags) THEN Get(doc.tags) ELSE <<>>,
     githubLink    |-> IF IsSome(doc.githubLink)
                       THEN Some(Trim(Get(doc.githubLink))) ELSE None,
     liveDemo      |-> IF IsSome(doc.liveDemo)
                       THEN Some(Trim(Get(doc.liveDemo))) ELSE None,
     userId        |-> doc.userId,
     authorName    |-> IF IsSome(doc.authorName) THEN Get(doc.authorName)
                       ELSE <<"Anonymous User">>,
     authorBio     |-> IF IsSome(doc.authorBio) THEN Get(doc.authorBio) ELSE EmptyStr,
     likes         |-> IF IsSome(doc.likes) THEN Get(doc.likes) ELSE 0,
     likedBy       |-> IF IsSome(doc.likedBy) THEN Get(doc.likedBy) ELSE <<>>,
     favoritedBy   |-> IF IsSome(doc.favoritedBy) THEN Get(doc.favoritedBy) ELSE <<>>,
     comments      |-> <<>>,
     ratings       |-> IF IsSome(doc.ratings) THEN Get(doc.ratings) ELSE <<>>,
     averageRating |-> IF IsSome(doc.averageRating)
                       THEN doc.averageRating ELSE Some(0)]

\* Validation run by save(): title and userId are required, every rating
\* and every comment must be valid, averageRating must be a number.
ProjectValid(p) ==
    /\ IsSome(p.title) /\ Len(Get(p.title)) > 0
    /\ IsSome(p.userId)
    /\ \A i \in 1..Len(p.ratings) : RatingValid(p.ratings[i])
    /\ \A i \in 1..Len(p.comments) : CommentValid(p.comments[i])
    /\ IsSome(p.averageRating)

\* err.message of the ValidationError save() rejects with: the name of the
\* model and the path that failed (the first one, in the order of the schema)
ValidationMessage(p) ==
    <<"Project validation failed",
      IF ~(IsSome(p.title) /\ Len(Get(p.title)) > 0) THEN "title"
      ELSE IF ~IsSome(p.userId) THEN "userId"
      ELSE IF \E i \in 1..Len(p.comments) : ~CommentValid(p.comments[i])
           THEN "comments.text"
      ELSE IF \E i \in 1..Len(p.ratings) : ~RatingValid(p.ratings[i])
           THEN "ratings.value"
      ELSE "averageRating">>

\* err.message of the storage errors the handlers can meet
DuplicateKeyMessage == <<"E11000 duplicate key error", "email">>
NegativeSkipMessage == <<"Skip value must be non-negative">>

\* Project.findById
FindById(pid) == IF pid \in 1..Len(projects) THEN Some(projects[pid]) ELSE None

\* The collection after project.save() of document pid
Saved(pid, p) == [projects EXCEPT ![pid] = p]

---------------------------------------------------------------------------
(* Request bodies *)

\* POST /projects: any field of the body may be absent.
BaseBody ==
    [title |-> Some(StrA), description |-> None, tags |-> None,
     githubLink |-> None, liveDemo |-> None, userId |-> None,
     authorName |-> None, authorBio |-> None, likes |-> None,
     likedBy |-> None, favoritedBy |-> None, ratings |-> None,
     averageRating |-> None]

CreateBodies ==
    { BaseBody,
      \* padded strings, and an attempt to set the owner and the author
      [BaseBody EXCEPT !.title = Some(PadA), !.description = Some(StrB),
                       !.tags = Some(<<StrA>>), !.githubLink = Some(StrA),
                       !.userId = Some("u3"), !.authorName = Some(StrB),
                       !.authorBio = Some(StrB)],
      \* the counters and lists a project normally starts without
      [BaseBody EXCEPT !.likes = Some(3), !.averageRating = Some(49),
                       !.likedBy = Some(<<"u1", "u1">>),
                       !.favoritedBy = Some(<<"u2", "u2">>),
                       !.ratings = Some(<<[userId |-> "u1", value |-> Some(1)],
                                          [userId |-> "u1", value |-> Some(1)],
                                          [userId |-> "u2", value |-> Some(1)],
                                          [userId |-> "u3", value |-> Some(2)]>>)],
      \* no title
      [BaseBody EXCEPT !.title = None],
      \* a rating out of range
      [BaseBody EXCEPT !.ratings = Some(<<[userId |-> "u1", value |-> Some(9)]>>)] }

\* PUT /projects/:id
UpdateBodies ==
    { [title |-> Some(StrB), description |-> Some(StrA), tags |-> Some(<<StrB>>),
       githubLink |-> Some(StrA), liveDemo |-> Some(StrB)],
      [title |-> Some(PadA), description |-> Some(Blank), tags |-> None,
       githubLink |-> Some(PadA), liveDemo |-> None],
      [title |-> None, description |-> Some(StrA), tags |-> None,
       githubLink |-> Some(EmptyStr), liveDemo |-> None] }

\* POST /projects/:id/rate: value absent or a number
RateValues == {None, Some(0), Some(1), Some(2), Some(5), Some(6)}

\* POST /projects/:id/comments: text absent or a string
CommentTexts == {None, Some(StrA)}

\* PUT /users/me
ProfileBodies ==
    { [name |-> PadA, bio |-> StrB],
      [name |-> StrA, bio |-> Blank] }

ProjectIds == 1..(MaxProjects + 1)
CommentIds == 1..(MaxComments + 1)

---------------------------------------------------------------------------
(* Handler logic *)

\* The response fields the handlers send (those a handler does not send are
\* 0, FALSE or "").
Reply(op, status) ==
    [op |-> op, status |-> status, likes |-> 0, flag |-> FALSE,
     averageRating |-> 0, userRating |-> 0, complete |-> "",
     items |-> <<>>, currentPage |-> 0, totalPages |-> 0, totalProjects |-> 0,
     error |-> <<>>]

\* catch (err): res.status(500).json({ error: err.message })
Failed(op, message) == [Reply(op, 500) EXCEPT !.error = message]

\* Mutant of ProfileComplete: name and bio are not trimmed.
ProfileCompleteUntrimmed(user) ==
    /\ IsSome(user)
    /\ Truthy(Get(user).name)
    /\ Truthy(Get(user).bio)

\* POST /projects line 115: the profile must exist with a name and a bio that
\* are non-empty after trimming.
ProfileComplete(user) ==
    /\ IsSome(user)
    /\ Truthy(Get(user).name)
    /\ Truthy(Get(user).bio)
    /\ Trim(Get(user).name) # EmptyStr
    /\ Trim(Get(user).bio) # EmptyStr

\* POST /projects lines 121-126: the body is spread first, then userId,
\* authorName and authorBio are set from the verified token and the profile.
CreateDoc(body, userId, user) ==
    [body EXCEPT !.userId = Some(userId),
                 !.authorName = Some(user.name),
                 !.authorBio = Some(user.bio)]

\* Mutant of IsOwner: only that the project has an owner is checked.
IsOwnerOfAny(project, userId) == IsSome(project.userId)

\* PUT /projects/:id line 299
IsOwner(project, userId) == project.userId = Some(userId)

\* x || "" on a string that may be undefined
OrEmpty(o) == IF IsSome(o) /\ Truthy(Get(o)) THEN Get(o) ELSE EmptyStr

\* Assignment to a String path with trim: true
SetTrimmed(o) == IF IsSome(o) THEN Some(Trim(Get(o))) ELSE None

\* PUT /projects/:id lines 304-308
ApplyUpdate(project, body) ==
    [project EXCEPT !.title = SetTrimmed(body.title),
                    !.description = SetTrimmed(body.description),
                    !.tags = IF IsSome(body.tags) THEN Get(body.tags) ELSE <<>>,
                    !.githubLink = SetTrimmed(Some(OrEmpty(body.githubLink))),
                    !.liveDemo = SetTrimmed(Some(OrEmpty(body.liveDemo)))]

\* like / favorite lines 334-338 and 369-373: remove every occurrence when
\* present, else push.
ToggleMembership(list, userId) ==
    IF Includes(list, userId) THEN FilterOut(list, userId)
    ELSE Append(list, userId)

\* like lines 334-340: the project after the like request of userId
LikeEffect(project, userId) ==
    [project EXCEPT !.likedBy = ToggleMembership(project.likedBy, userId),
                    !.likes = Len(ToggleMembership(project.likedBy, userId))]

\* favorite lines 369-373: the project after the favorite request of userId
FavoriteEffect(project, userId) ==
    [project EXCEPT !.favoritedBy = ToggleMembership(project.favoritedBy, userId)]

\* Mutant of RatingOutOfRange: the upper limit is not checked.
RatingOutOfRangeLowOnly(value) == IsSome(value) /\ Get(value) < 1

\* rate line 400: value < 1 || value > 5 (both comparisons are false for an
\* undefined value)
RatingOutOfRange(value) == IsSome(value) /\ (Get(value) < 1 \/ Get(value) > 5)

\* Index of the first rating of userId, 0 when there is none
\* (ratings.find((r) => r.userId === userId))
FindRating(ratings, userId) ==
    IF \E i \in 1..Len(ratings) : ratings[i].userId = userId
    THEN CHOOSE i \in 1..Len(ratings) :
            /\ ratings[i].userId = userId
            /\ \A j \in 1..(i - 1) : ratings[j].userId # userId
    ELSE 0

\* rate lines 407-410
ApplyRating(ratings, userId, value) ==
    IF FindRating(ratings, userId) > 0
    THEN [ratings EXCEPT ![FindRating(ratings, userId)].value = value]
    ELSE Append(ratings, [userId |-> userId, value |-> value])

\* ratings.reduce((a, b) => a + b.value, 0)
RECURSIVE SumValues(_)
SumValues(ratings) ==
    IF ratings = <<>> THEN 0
    ELSE Get(Head(ratings).value) + SumValues(Tail(ratings))

\* Mutant of ToFixed1: the digits after the first decimal are cut off.
ToFixed1Truncating(sum, n) == (10 * sum) \div n

\* parseFloat((sum / n).toFixed(1)), in tenths: toFixed(1) picks the integer
\* k for which k/10 is nearest to sum/n, the larger k when two are equally
\* near. (sum/n is computed in binary floating point; for the fewer than 20
\* ratings of this model every tie is a multiple of 1/4, which is exact.)
ToFixed1(sum, n) == (20 * sum + n) \div (2 * n)

\* rate lines 412-416: NaN (here <<>>) when a value is undefined
RateAverage(ratings) ==
    IF \E i \in 1..Len(ratings) : ~IsSome(ratings[i].value) THEN None
    ELSE Some(ToFixed1(SumValues(ratings), Len(ratings)))

\* The views' average (lines 180-183/191, 223-226/234, 264-267/274)
ViewAverage(ratings) ==
    IF Len(ratings) > 0 THEN ToFixed1(SumValues(ratings), Len(ratings)) ELSE 0

\* Index of the comment with this _id, 0 when there is none
\* (project.comments.id(commentId))
FindComment(comments, cid) ==
    IF \E i \in 1..Len(comments) : comments[i].id = cid
    THEN CHOOSE i \in 1..Len(comments) : comments[i].id = cid
    ELSE 0

\* Mutant of DeleteForbidden: only the comment's author may delete.
DeleteForbiddenUnlessAuthor(comment, project, uid) == comment.userId # uid

\* delete comment line 89: denied unless the requester wrote the comment or
\* owns the project
DeleteForbidden(comment, project, uid) ==
    comment.userId # uid /\ project.userId # Some(uid)

\* comment.deleteOne(): the list without its i-th entry
RemoveAt(seq, i) == SubSeq(seq, 1, i - 1) \o SubSeq(seq, i + 1, Len(seq))

\* PUT /users/me lines 118-119: name && bio && name.trim() !== "" &&
\* bio.trim() !== "" (a falsy operand is the value of the expression)
ProfileFlagExpr(name, bio) ==
    IF ~Truthy(name) \/ ~Truthy(bio) THEN ""
    ELSE IF Trim(name) # EmptyStr /\ Trim(bio) # EmptyStr THEN "true"
    ELSE "false"

---------------------------------------------------------------------------
(* Views: what the read handlers compute from a stored project. The
   requester is <<>> when the request carries no valid credential. *)

\* p.ratings?.find((r) => r.userId === userId)?.value || 0
UserRating(p, requester) ==
    IF IsSome(requester) /\ FindRating(p.ratings, Get(requester)) > 0
    THEN Get(p.ratings[FindRating(p.ratings, Get(requester))].value)
    ELSE 0

\* GET /projects, one entry of the page
ListView(p, requester) ==
    [likedByCurrentUser |-> IsSome(requester) /\ Includes(p.likedBy, Get(requester)),
     favoritedByCurrentUser |->
         IsSome(requester) /\ Includes(p.favoritedBy, Get(requester)),
     commentCount |-> Len(p.comments),
     likes |-> Len(p.likedBy),
     averageRating |-> ViewAverage(p.ratings),
     userRating |-> UserRating(p, requester)]

\* GET /projects/:id (likes is the stored field, from toObject())
SingleView(p, requester) ==
    [likedByCurrentUser |-> IsSome(requester) /\ Includes(p.likedBy, Get(requester)),
     favoritedByCurrentUser |->
         IsSome(requester) /\ Includes(p.favoritedBy, Get(requester)),
     commentCount |-> Len(p.comments),
     likes |-> p.likes,
     averageRating |-> ViewAverage(p.ratings),
     userRating |-> UserRating(p, requester)]

\* Mutant of MyView: likedByCurrentUser is computed from likedBy.
MyViewByMembership(p, userId) ==
    [likedByCurrentUser |-> Includes(p.likedBy, userId),
     favoritedByCurrentUser |-> Includes(p.favoritedBy, userId),
     commentCount |-> Len(p.comments),
     likes |-> Len(p.likedBy),
     averageRating |-> ViewAverage(p.ratings)]

\* GET /projects/my, one entry (the requester is the owner)
MyView(p, userId) ==
    [likedByCurrentUser |-> TRUE,
     favoritedByCurrentUser |-> Includes(p.favoritedBy, userId),
     commentCount |-> Len(p.comments),
     likes |-> Len(p.likedBy),
     averageRating |-> ViewAverage(p.ratings)]

\* GET /projects/favorites/my, one entry (averageRating is the stored field)
FavoritesView(p, userId) ==
    [likedByCurrentUser |-> Includes(p.likedBy, userId),
     favoritedByCurrentUser |-> TRUE,
     commentCount |-> Len(p.comments),
     likes |-> Len(p.likedBy),
     averageRating |-> Get(p.averageRating)]

\* GET /users/me and GET /users/:userId:
\* projects.reduce((sum, p) => sum + (p.likes || 0), 0) over the user's projects
RECURSIVE TotalLikes(_, _)
TotalLikes(ps, userId) ==
    IF ps = <<>> THEN 0
    ELSE (IF Head(ps).userId = Some(userId) THEN Head(ps).likes ELSE 0)
         + TotalLikes(Tail(ps), userId)

\* GET /projects/:id/comments: a copy sorted by createdAt, newest first
RECURSIVE InsertByDateDesc(_, _)
InsertByDateDesc(sorted, c) ==
    IF sorted = <<>> THEN <<c>>
    ELSE IF Head(sorted).createdAt >= c.createdAt
         THEN <<Head(sorted)>> \o InsertByDateDesc(Tail(sorted), c)
         ELSE <<c>> \o sorted

RECURSIVE CommentsView(_)
CommentsView(comments) ==
    IF comments = <<>> THEN <<>>
    ELSE InsertByDateDesc(CommentsView(SubSeq(comments, 1, Len(comments) - 1)),
                          comments[Len(comments)])

---------------------------------------------------------------------------
(* Request handlers *)

\* res.status(..).json(..) of a request that stores nothing
Refuse(r) ==
    /\ resp' = r
    /\ UNCHANGED <<projects, profiles, nextCid, deleted>>

\* res.status(..).json(..) after project.save()
StoreProjects(ps, r) ==
    /\ projects' = ps
    /\ resp' = r
    /\ UNCHANGED <<profiles, nextCid, deleted>>

\* POST /projects
CreateProject(cred, body) ==
    LET decoded == verifyFirebaseToken(cred) IN
       IF ~IsSome(decoded) THEN Refuse(Reply("createProject", 401))
       ELSE
         LET userId == Get(decoded).uid
             user == FindUser(userId)
         IN
         IF ~ProfileComplete(user) THEN Refuse(Reply("createProject", 403))
         ELSE
           LET project == ProjectSchemaCast(CreateDoc(body, userId, Get(user))) IN
           IF ~ProjectValid(project)
           THEN Refuse(Failed("createProject", ValidationMessage(project)))
           ELSE
             /\ Len(projects) < MaxProjects
             /\ StoreProjects(Append(projects, project), Reply("createProject", 201))

\* PUT /projects/:id
UpdateProject(cred, pid, body) ==
    LET decoded == verifyFirebaseToken(cred) IN
       IF ~IsSome(decoded) THEN Refuse(Reply("updateProject", 401))
       ELSE IF ~IsSome(FindById(pid)) THEN Refuse(Reply("updateProject", 404))
       ELSE
         LET userId == Get(decoded).uid
             project == Get(FindById(pid))
         IN
         IF ~IsOwner(project, userId) THEN Refuse(Reply("updateProject", 403))
         ELSE IF ~ProjectValid(ApplyUpdate(project, body))
              THEN Refuse(Failed("updateProject",
                                 ValidationMessage(ApplyUpdate(project, body))))
         ELSE StoreProjects(Saved(pid, ApplyUpdate(project, body)),
                            Reply("updateProject", 200))

\* POST /projects/:id/like
LikeProject(cred, pid) ==
    LET decoded == verifyFirebaseToken(cred) IN
       IF ~IsSome(decoded) THEN Refuse(Reply("like", 401))
       ELSE IF ~IsSome(FindById(pid)) THEN Refuse(Reply("like", 404))
       ELSE
         LET userId == Get(decoded).uid
             liked == LikeEffect(Get(FindById(pid)), userId)
         IN
         StoreProjects(
             Saved(pid, liked),
             [Reply("like", 200) EXCEPT !.likes = liked.likes,
                                        !.flag = Includes(liked.likedBy, userId)])

\* POST /projects/:id/favorite
FavoriteProject(cred, pid) ==
    LET decoded == verifyFirebaseToken(cred) IN
       IF ~IsSome(decoded) THEN Refuse(Reply("favorite", 401))
       ELSE IF ~IsSome(FindById(pid)) THEN Refuse(Reply("favorite", 404))
       ELSE
         LET userId == Get(decoded).uid
             favorited == FavoriteEffect(Get(FindById(pid)), userId)
         IN
         StoreProjects(
             Saved(pid, favorited),
             [Reply("favorite", 200)
                 EXCEPT !.flag = Includes(favorited.favoritedBy, userId)])

\* Mutant of RateProject: the range of the value is checked after the save.
RateProjectSavingFirst(cred, pid, value) ==
    LET decoded == verifyFirebaseToken(cred) IN
       IF ~IsSome(decoded) THEN Refuse(Reply("rate", 401))
       ELSE IF ~IsSome(FindById(pid)) THEN Refuse(Reply("rate", 404))
       ELSE
         LET userId == Get(decoded).uid
             project == Get(FindById(pid))
             ratings == ApplyRating(project.ratings, userId, value)
             rated == [project EXCEPT !.ratings = ratings,
                                      !.averageRating = RateAverage(ratings)]
         IN
         IF RatingOutOfRange(value)
         THEN StoreProjects(Saved(pid, rated), Reply("rate", 400))
         ELSE IF ~ProjectValid(rated)
         THEN Refuse(Failed("rate", ValidationMessage(rated)))
         ELSE StoreProjects(
                  Saved(pid, rated),
                  [Reply("rate", 200) EXCEPT !.averageRating = Get(rated.averageRating),
                                             !.userRating = Get(value)])

\* POST /projects/:id/rate
RateProject(cred, pid, value) ==
    LET decoded == verifyFirebaseToken(cred) IN
       IF ~IsSome(decoded) THEN Refuse(Reply("rate", 401))
       ELSE IF RatingOutOfRange(value) THEN Refuse(Reply("rate", 400))
       ELSE IF ~IsSome(FindById(pid)) THEN Refuse(Reply("rate", 404))
       ELSE
         LET userId == Get(decoded).uid
             project == Get(FindById(pid))
             ratings == ApplyRating(project.ratings, userId, value)
             rated == [project EXCEPT !.ratings = ratings,
                                      !.averageRating = RateAverage(ratings)]
         IN
         IF ~ProjectValid(rated)
         THEN Refuse(Failed("rate", ValidationMessage(rated)))
         ELSE StoreProjects(
                  Saved(pid, rated),
                  [Reply("rate", 200) EXCEPT !.averageRating = Get(rated.averageRating),
                                             !.userRating = Get(value)])

\* POST /projects/:id/comments
PostComment(cred, pid, text) ==
    LET decoded == verifyFirebaseToken(cred) IN
       IF ~IsSome(decoded) THEN Refuse(Reply("postComment", 401))
       ELSE IF ~IsSome(FindById(pid)) THEN Refuse(Reply("postComment", 404))
       ELSE
         LET project == Get(FindById(pid))
             newComment == [id |-> nextCid,
                            userId |-> Get(decoded).uid,
                            userEmail |-> Get(decoded).email,
                            text |-> text,
                            createdAt |-> nextCid]
             commented == [project EXCEPT !.comments = Append(@, newComment)]
         IN
         IF ~ProjectValid(commented)
         THEN Refuse(Failed("postComment", ValidationMessage(commented)))
         ELSE
           /\ nextCid <= MaxComments
           /\ projects' = Saved(pid, commented)
           /\ nextCid' = nextCid + 1
           /\ resp' = Reply("postComment", 201)
           /\ UNCHANGED <<profiles, deleted>>

\* DELETE /projects/:id/comments/:commentId
DeleteComment(cred, pid, cid) ==
    LET decoded == verifyFirebaseToken(cred) IN
       IF ~IsSome(decoded) THEN Refuse(Reply("deleteComment", 401))
       ELSE IF ~IsSome(FindById(pid)) THEN Refuse(Reply("deleteComment", 404))
       ELSE
         LET project == Get(FindById(pid))
             i == FindComment(project.comments, cid)
         IN
         IF i = 0 THEN Refuse(Reply("deleteComment", 404))
         ELSE IF DeleteForbidden(project.comments[i], project, Get(decoded).uid)
              THEN Refuse(Reply("deleteComment", 403))
         ELSE
           /\ projects' = Saved(pid, [project EXCEPT !.comments = RemoveAt(@, i)])
           /\ deleted' = deleted \cup {cid}
           /\ resp' = Reply("deleteComment", 200)
           /\ UNCHANGED <<profiles, nextCid>>

\* GET /users/me: the profile is created on the first fetch
GetOwnProfile(cred) ==
    LET decoded == verifyFirebaseToken(cred) IN
       IF ~IsSome(decoded) THEN Refuse(Reply("getOwnProfile", 401))
       ELSE
         LET userId == Get(decoded).uid
             user == IF IsSome(FindUser(userId)) THEN Get(FindUser(userId))
                     ELSE UserSchemaCast([userId |-> userId,
                                          email |-> Some(Get(decoded).email),
                                          name |-> OrEmpty(Get(decoded).name),
                                          bio |-> EmptyStr,
                                          isProfileComplete |-> "false"])
         IN
         /\ profiles' = [profiles EXCEPT ![userId] = Some(user)]
         /\ resp' = [Reply("getOwnProfile", 200)
                        EXCEPT !.complete = ReadIsProfileComplete(user)]
         /\ UNCHANGED <<projects, nextCid, deleted>>

\* PUT /users/me: findOneAndUpdate with upsert
UpdateOwnProfile(cred, body) ==
    LET decoded == verifyFirebaseToken(cred) IN
       IF ~IsSome(decoded) THEN Refuse(Reply("updateOwnProfile", 401))
       ELSE
         LET userId == Get(decoded).uid
             update == [name |-> body.name, bio |-> body.bio,
                        isProfileComplete |-> ProfileFlagExpr(body.name, body.bio)]
             updatedUser ==
                 IF IsSome(FindUser(userId))
                 THEN UserSchemaUpdate(Get(FindUser(userId)), update)
                 ELSE UserSchemaUpdate(UserSchemaCast([userId |-> userId]), update)
         IN
         IF ~IsSome(FindUser(userId)) /\ EmailTaken(updatedUser.email)
         THEN Refuse(Failed("updateOwnProfile", DuplicateKeyMessage))
         ELSE
         /\ profiles' = [profiles EXCEPT ![userId] = Some(updatedUser)]
         /\ resp' = [Reply("updateOwnProfile", 200)
                        EXCEPT !.complete = ReadIsProfileComplete(updatedUser)]
         /\ UNCHANGED <<projects, nextCid, deleted>>

\* The value of a decimal digit, -1 for any other character
DigitValue(c) ==
    CASE c = "0" -> 0 [] c = "1" -> 1 [] c = "2" -> 2 [] c = "3" -> 3
      [] c = "4" -> 4 [] c = "5" -> 5 [] c = "6" -> 6 [] c = "7" -> 7
      [] c = "8" -> 8 [] c = "9" -> 9 [] OTHER -> -1

\* The number of leading decimal digits of s
RECURSIVE DigitPrefix(_)
DigitPrefix(s) ==
    IF s = <<>> \/ DigitValue(Head(s)) < 0 THEN 0 ELSE 1 + DigitPrefix(Tail(s))

\* The value of a string of decimal digits
RECURSIVE DigitsValue(_)
DigitsValue(s) ==
    IF s = <<>> THEN 0
    ELSE 10 * DigitsValue(SubSeq(s, 1, Len(s) - 1)) + DigitValue(s[Len(s)])

\* parseInt(x) of a query parameter: leading whitespace is skipped, a sign
\* is read, then the longest prefix of digits; NaN (here None) when the
\* parameter is absent or has no such prefix.
ParseInt(o) ==
    IF ~IsSome(o) THEN None
    ELSE LET s == TrimLeft(Get(o))
             negative == s # <<>> /\ Head(s) = "-"
             rest == IF s # <<>> /\ Head(s) \in {"-", "+"} THEN Tail(s) ELSE s
             n == DigitPrefix(rest)
         IN
         IF n = 0 THEN None
         ELSE Some((IF negative THEN -1 ELSE 1) * DigitsValue(SubSeq(rest, 1, n)))

\* parseInt(x) || d: NaN and 0 are falsy
OrDefault(n, d) == IF IsSome(n) /\ Get(n) # 0 THEN Get(n) ELSE d

\* Math.ceil(a / b) for a >= 0, b > 0
Ceil(a, b) == (a + b - 1) \div b

\* decoded?.uid, and the requester the views are computed for
Requester(decoded) == IF IsSome(decoded) THEN Some(Get(decoded).uid) ELSE None

\* The _ids of the stored projects, newest first (.sort({ createdAt: -1 }))
NewestFirst == [i \in 1..Len(projects) |-> Len(projects) + 1 - i]

\* Mutant of Page: one document more is skipped.
PageSkippingOneMore(ids, skip, limit) ==
    SubSeq(ids, skip + 2,
           IF skip + 1 + limit < Len(ids) THEN skip + 1 + limit ELSE Len(ids))

\* .skip(skip).limit(limit) of a sorted result
Page(ids, skip, limit) ==
    SubSeq(ids, skip + 1, IF skip + limit < Len(ids) THEN skip + limit ELSE Len(ids))

\* One entry of a response: the project's _id and the computed fields
Item(pid, view) == [id |-> pid, view |-> view]

\* GET /projects?page&limit
ListProjects(cred, query) ==
    LET page == OrDefault(ParseInt(query.page), 1)
        limit == OrDefault(ParseInt(query.limit), 9)
        skip == (page - 1) * limit
        requester == Requester(verifyFirebaseToken(cred))
        total == Len(projects)
    IN
    IF skip < 0 THEN Refuse(Failed("listProjects", NegativeSkipMessage))
    ELSE
      LET found == Page(NewestFirst, skip, limit) IN
      Refuse([Reply("listProjects", 200) EXCEPT
                 !.items = [i \in 1..Len(found) |->
                               Item(found[i], ListView(projects[found[i]], requester))],
                 !.currentPage = page,
                 !.totalPages = Ceil(total, limit),
                 !.totalProjects = total])

\* GET /projects/:id
GetProject(cred, pid) ==
    LET requester == Requester(verifyFirebaseToken(cred)) IN
    IF ~IsSome(FindById(pid)) THEN Refuse(Reply("getProject", 404))
    ELSE Refuse([Reply("getProject", 200) EXCEPT
                    !.items = <<Item(pid, SingleView(Get(FindById(pid)), requester))>>])

\* GET /projects/:id/comments (the credential is not looked at)
GetComments(cred, pid) ==
    IF ~IsSome(FindById(pid)) THEN Refuse(Reply("getComments", 404))
    ELSE Refuse([Reply("getComments", 200) EXCEPT
                    !.items = CommentsView(Get(FindById(pid)).comments)])

\* GET /projects/my
MyProjects(cred) ==
    LET decoded == verifyFirebaseToken(cred) IN
       IF ~IsSome(decoded) THEN Refuse(Reply("myProjects", 401))
       ELSE
         LET userId == Get(decoded).uid
             Mine(pid) == projects[pid].userId = Some(userId)
             found == SelectSeq(NewestFirst, Mine)
         IN
         Refuse([Reply("myProjects", 200) EXCEPT
                    !.items = [i \in 1..Len(found) |->
                                  Item(found[i], MyView(projects[found[i]], userId))]])

\* GET /projects/favorites/my
MyFavorites(cred) ==
    LET decoded == verifyFirebaseToken(cred) IN
       IF ~IsSome(decoded) THEN Refuse(Reply("myFavorites", 401))
       ELSE
         LET userId == Get(decoded).uid
             Favorite(pid) == Includes(projects[pid].favoritedBy, userId)
             found == SelectSeq(NewestFirst, Favorite)
         IN
         Refuse([Reply("myFavorites", 200) EXCEPT
                    !.items = [i \in 1..Len(found) |->
                                  Item(found[i],
                                       FavoritesView(projects[found[i]], userId))]])

---------------------------------------------------------------------------
(* The like and rate handlers step by step: findById loads the document,
   the handler changes its copy, and save() sends what was changed. The
   other handlers are written as one step each above. *)

\* err.message of the VersionError of a save() whose version check fails
VersionErrorMessage == <<"No matching document found for id", "version">>

\* A request that is answered without a save()
Answered(kind, pid, reply) ==
    [kind |-> kind, userId |-> "", pid |-> pid, value |-> None, pc |-> "done",
     project |-> <<>>, version |-> 0, reply |-> reply]

\* A request after const project = await Project.findById(req.params.id)
Loaded(kind, userId, pid, value) ==
    [kind |-> kind, userId |-> userId, pid |-> pid, value |-> value,
     pc |-> "loaded", project |-> <<projects[pid]>>, version |-> versions[pid],
     reply |-> Reply("", 0)]

\* The request is answered at once
AnswerNow(kind, pid, reply) ==
    /\ inflight' = Append(inflight, Answered(kind, pid, reply))
    /\ resp' = reply
    /\ UNCHANGED <<projects, profiles, nextCid, served, deleted, versions>>

\* The request waits for its save()
Await(request) ==
    /\ inflight' = Append(inflight, request)
    /\ UNCHANGED <<projects, profiles, nextCid, resp, served, deleted, versions>>

\* The request i is answered; stored is the collection after its save()
Answer(i, reply, stored, version) ==
    /\ inflight' = [inflight EXCEPT ![i].pc = "done", ![i].reply = reply]
    /\ resp' = reply
    /\ projects' = stored
    /\ versions' = [versions EXCEPT ![inflight[i].pid] = version]
    /\ UNCHANGED <<profiles, nextCid, served, deleted>>

\* POST /projects/:id/like up to findById (lines 324-330)
BeginLike(cred, pid) ==
    LET decoded == verifyFirebaseToken(cred) IN
       IF ~IsSome(decoded) THEN AnswerNow("like", pid, Reply("like", 401))
       ELSE IF ~IsSome(FindById(pid))
            THEN AnswerNow("like", pid, Reply("like", 404))
       ELSE Await(Loaded("like", Get(decoded).uid, pid, None))

\* Mutant of SaveLike: save() writes the whole copy of the request.
SaveLikeWholeDocument(stored, loaded, userId) == LikeEffect(loaded, userId)

\* save() of the like handler: a removal assigns likedBy, which is sent as a
\* $set of the whole list; an addition is a push, which is sent as a $push
\* of the one element; likes is sent when the handler changed it.
SaveLike(stored, loaded, userId) ==
    LET local == LikeEffect(loaded, userId) IN
    [stored EXCEPT
        !.likedBy = IF Includes(loaded.likedBy, userId) THEN local.likedBy
                    ELSE Append(stored.likedBy, userId),
        !.likes = IF local.likes # loaded.likes THEN local.likes ELSE stored.likes]

\* POST /projects/:id/like from line 332: a save() that assigns the whole
\* list requires the version it loaded and fails on another one.
FinishLike(i) ==
    LET r == inflight[i]
        loaded == Get(r.project)
        local == LikeEffect(loaded, r.userId)
        assigns == Includes(loaded.likedBy, r.userId)
    IN
    /\ r.pc = "loaded"
    /\ r.kind = "like"
    /\ IF assigns /\ versions[r.pid] # r.version
       THEN Answer(i, Failed("like", VersionErrorMessage), projects, versions[r.pid])
       ELSE Answer(i,
                   [Reply("like", 200) EXCEPT !.likes = local.likes,
                                              !.flag = Includes(local.likedBy, r.userId)],
                   Saved(r.pid, SaveLike(projects[r.pid], loaded, r.userId)),
                   versions[r.pid] + 1)

\* POST /projects/:id/rate up to findById (lines 393-405)
BeginRate(cred, pid, value) ==
    LET decoded == verifyFirebaseToken(cred) IN
       IF ~IsSome(decoded) THEN AnswerNow("rate", pid, Reply("rate", 401))
       ELSE IF RatingOutOfRange(value)
            THEN AnswerNow("rate", pid, Reply("rate", 400))
       ELSE IF ~IsSome(FindById(pid))
            THEN AnswerNow("rate", pid, Reply("rate", 404))
       ELSE Await(Loaded("rate", Get(decoded).uid, pid, value))

\* save() of the rate handler: the value of an existing entry is sent as a
\* $set of that position, a new entry as a $push; averageRating is sent when
\* the handler changed it.
SaveRate(stored, loaded, userId, value) ==
    LET at == FindRating(loaded.ratings, userId)
        average == RateAverage(ApplyRating(loaded.ratings, userId, value))
    IN
    [stored EXCEPT
        !.ratings = IF at > 0 THEN [stored.ratings EXCEPT ![at].value = value]
                    ELSE Append(stored.ratings, [userId |-> userId, value |-> value]),
        !.averageRating = IF average # loaded.averageRating THEN average
                          ELSE stored.averageRating]

\* POST /projects/:id/rate from line 407: a save() that sets a position of
\* the list requires the version it loaded; one that pushes raises it.
FinishRate(i) ==
    LET r == inflight[i]
        loaded == Get(r.project)
        at == FindRating(loaded.ratings, r.userId)
        ratings == ApplyRating(loaded.ratings, r.userId, r.value)
        rated == [loaded EXCEPT !.ratings = ratings,
                                !.averageRating = RateAverage(ratings)]
        sets == at > 0 /\ loaded.ratings[at].value # r.value
    IN
    /\ r.pc = "loaded"
    /\ r.kind = "rate"
    /\ IF ~ProjectValid(rated)
       THEN Answer(i, Failed("rate", ValidationMessage(rated)), projects,
                   versions[r.pid])
       ELSE IF sets /\ versions[r.pid] # r.version
       THEN Answer(i, Failed("rate", VersionErrorMessage), projects, versions[r.pid])
       ELSE Answer(i,
                   [Reply("rate", 200) EXCEPT
                       !.averageRating = Get(rated.averageRating),
                       !.userRating = Get(r.value)],
                   Saved(r.pid, SaveRate(projects[r.pid], loaded, r.userId, r.value)),
                   IF at > 0 THEN versions[r.pid] ELSE versions[r.pid] + 1)

---------------------------------------------------------------------------
(* Specification *)

Init ==
    /\ projects = <<>>
    /\ profiles = [u \in Users |-> None]
    /\ nextCid = 1
    /\ resp = Reply("", 0)
    /\ served = 0
    /\ deleted = {}
    /\ inflight = <<>>
    /\ versions = [pid \in ProjectIds |-> 0]

\* One more request is served, of at most max, from its start to its response:
\* none is left in flight, and no save meets a version other than the loaded.
Budget(max) ==
    /\ served < max
    /\ served' = served + 1
    /\ UNCHANGED <<inflight, versions>>

Create ==
    \E cred \in Credentials, body \in CreateBodies :
        Budget(MaxRequests) /\ CreateProject(cred, body)

Update ==
    \E cred \in Credentials, pid \in ProjectIds, body \in UpdateBodies :
        Budget(MaxRequests) /\ UpdateProject(cred, pid, body)

Like ==
    \E cred \in Credentials, pid \in ProjectIds :
        Budget(MaxRequests) /\ LikeProject(cred, pid)

Favorite ==
    \E cred \in Credentials, pid \in ProjectIds :
        Budget(MaxRequests) /\ FavoriteProject(cred, pid)

Rate ==
    \E cred \in Credentials, pid \in ProjectIds, value \in RateValues :
        Budget(MaxRequests) /\ RateProject(cred, pid, value)

Comment ==
    \E cred \in Credentials, pid \in ProjectIds, text \in CommentTexts :
        Budget(MaxRequests) /\ PostComment(cred, pid, text)

Uncomment ==
    \E cred \in Credentials, pid \in ProjectIds, cid \in CommentIds :
        Budget(MaxRequests) /\ DeleteComment(cred, pid, cid)

FetchProfile ==
    \E cred \in Credentials : Budget(MaxRequests) /\ GetOwnProfile(cred)

EditProfile ==
    \E cred \in Credentials, body \in ProfileBodies :
        Budget(MaxRequests) /\ UpdateOwnProfile(cred, body)

Next ==
    \/ Create
    \/ Update
    \/ Like
    \/ Favorite
    \/ Rate
    \/ Comment
    \/ Uncomment
    \/ FetchProfile
    \/ EditProfile

Spec == Init /\ [][Next]_vars

---------------------------------------------------------------------------
(* The rating requests alone, on a project of u1: more requests in a row
   than Spec allows, so that a rater can rate again after the others. *)

MaxRatingRequests == 5

RatingSetup ==
    \E body \in ProfileBodies :
        Budget(MaxRatingRequests) /\ UpdateOwnProfile("u1", body)

RatingCreate ==
    \E body \in CreateBodies :
        Budget(MaxRatingRequests) /\ CreateProject("u1", body)

RatingRate ==
    \E cred \in Credentials, pid \in ProjectIds, value \in RateValues :
        Budget(MaxRatingRequests) /\ RateProject(cred, pid, value)

NextRating ==
    \/ RatingSetup
    \/ RatingCreate
    \/ RatingRate

SpecRating == Init /\ [][NextRating]_vars

---------------------------------------------------------------------------
(* The requests that store something together with the reads *)

MaxReadRequests == 3

\* GET /projects?page&limit: the query parameters are strings or absent
ReadQueries ==
    { [page |-> None, limit |-> None],
      [page |-> Some(<<"1">>), limit |-> Some(<<"1">>)],
      [page |-> Some(<<"2">>), limit |-> Some(<<"1">>)] }

\* Any request that may store something, of at most max requests
AnyWrite(max) ==
    \/ \E cred \in Credentials, body \in CreateBodies :
          Budget(max) /\ CreateProject(cred, body)
    \/ \E cred \in Credentials, pid \in ProjectIds, body \in UpdateBodies :
          Budget(max) /\ UpdateProject(cred, pid, body)
    \/ \E cred \in Credentials, pid \in ProjectIds :
          Budget(max) /\ LikeProject(cred, pid)
    \/ \E cred \in Credentials, pid \in ProjectIds :
          Budget(max) /\ FavoriteProject(cred, pid)
    \/ \E cred \in Credentials, pid \in ProjectIds, value \in RateValues :
          Budget(max) /\ RateProject(cred, pid, value)
    \/ \E cred \in Credentials, pid \in ProjectIds, text \in CommentTexts :
          Budget(max) /\ PostComment(cred, pid, text)
    \/ \E cred \in Credentials, pid \in ProjectIds, cid \in CommentIds :
          Budget(max) /\ DeleteComment(cred, pid, cid)
    \/ \E cred \in Credentials : Budget(max) /\ GetOwnProfile(cred)
    \/ \E cred \in Credentials, body \in ProfileBodies :
          Budget(max) /\ UpdateOwnProfile(cred, body)

ReadList ==
    \E cred \in Credentials, query \in ReadQueries :
        Budget(MaxReadRequests) /\ ListProjects(cred, query)

ReadOne ==
    \E cred \in Credentials, pid \in ProjectIds :
        Budget(MaxReadRequests) /\ GetProject(cred, pid)

ReadComments ==
    \E cred \in Credentials, pid \in ProjectIds :
        Budget(MaxReadRequests) /\ GetComments(cred, pid)

ReadMine ==
    \E cred \in Credentials : Budget(MaxReadRequests) /\ MyProjects(cred)

ReadFavorites ==
    \E cred \in Credentials : Budget(MaxReadRequests) /\ MyFavorites(cred)

NextReads ==
    \/ AnyWrite(MaxReadRequests)
    \/ ReadList
    \/ ReadOne
    \/ ReadComments
    \/ ReadMine
    \/ ReadFavorites

SpecReads == Init /\ [][NextReads]_vars

---------------------------------------------------------------------------
(* The paginated list over a collection of many projects *)

MaxListed == 20

\* u1's profile after PUT /users/me with a name and a bio
ListedProfile ==
    UserSchemaUpdate(UserSchemaCast([userId |-> "u1"]),
                     [name |-> StrA, bio |-> StrB,
                      isProfileComplete |-> ProfileFlagExpr(StrA, StrB)])

\* A project of u1 as POST /projects stores it
ListedProject == ProjectSchemaCast(CreateDoc(BaseBody, "u1", ListedProfile))

\* GET /projects?page&limit
PagingQueries ==
    [page : {None, Some(<<"1">>), Some(<<"2">>), Some(<<"3">>), Some(<<"0">>),
             Some(<<"x">>), Some(<<"-", "1">>), Some(<<" ", "2", "x">>)},
     limit : {None, Some(<<"9">>), Some(<<"5">>), Some(<<"0">>), Some(<<"1", "0">>)}]

\* u1 has completed the profile and created some projects, one after another
InitPaging ==
    /\ \E n \in 0..MaxListed : projects = [i \in 1..n |-> ListedProject]
    /\ profiles = [u \in Users |-> IF u = "u1" THEN Some(ListedProfile) ELSE None]
    /\ nextCid = 1
    /\ resp = Reply("", 0)
    /\ served = 0
    /\ deleted = {}
    /\ inflight = <<>>
    /\ versions = [pid \in ProjectIds |-> 0]

PagingList ==
    \E cred \in Credentials, query \in PagingQueries :
        ListProjects(cred, query) /\ UNCHANGED <<served, inflight, versions>>

NextPaging == PagingList

SpecPaging == InitPaging /\ [][NextPaging]_vars

---------------------------------------------------------------------------
(* Like and rate requests that overlap on one project *)

MaxRaceRequests == 2

RaceIds == {1, 2}
RaceValues == {None, Some(1), Some(5), Some(6)}

\* u1 has created one project; u3 may have liked and rated it already
InitRace ==
    /\ \E before \in BOOLEAN :
          LET liked == LikeEffect(ListedProject, "u3") IN
          /\ projects = <<IF before THEN SaveRate(liked, liked, "u3", Some(2))
                          ELSE ListedProject>>
          /\ versions = [pid \in ProjectIds |-> IF before /\ pid = 1 THEN 2 ELSE 0]
    /\ profiles = [u \in Users |-> IF u = "u1" THEN Some(ListedProfile) ELSE None]
    /\ nextCid = 1
    /\ resp = Reply("", 0)
    /\ served = 0
    /\ deleted = {}
    /\ inflight = <<>>

RaceBeginLike ==
    \E cred \in Credentials, pid \in RaceIds :
        Len(inflight) < MaxRaceRequests /\ BeginLike(cred, pid)

RaceFinishLike == \E i \in 1..Len(inflight) : FinishLike(i)

RaceBeginRate ==
    \E cred \in Credentials, pid \in RaceIds, value \in RaceValues :
        Len(inflight) < MaxRaceRequests /\ BeginRate(cred, pid, value)

RaceFinishRate == \E i \in 1..Len(inflight) : FinishRate(i)

NextRace ==
    \/ RaceBeginLike
    \/ RaceFinishLike
    \/ RaceBeginRate
    \/ RaceFinishRate

SpecRace == InitRace /\ [][NextRace]_vars

---------------------------------------------------------------------------
(* Properties *)

Requesters == {None} \cup {Some(u) : u \in Users}

StoredIds == 1..Len(projects)

\* The raters of a ratings list, and the number of entries of one rater
Raters(ratings) == {ratings[i].userId : i \in 1..Len(ratings)}
EntriesOf(ratings, u) == Cardinality({i \in 1..Len(ratings) : ratings[i].userId = u})

\* C1: after any sequence of rate requests a project's ratings hold at most
\* one entry per rater (the upsert itself is RateUpsertsInPlace below).
OneRatingPerRater ==
    \A pid \in StoredIds : \A u \in Users : EntriesOf(projects[pid].ratings, u) <= 1

\* C1, the step alone: a successful rate request by a rater with an entry
\* puts the new value in the rater's first entry and changes nothing else of
\* the list; by a new rater it appends exactly one entry.
RateUpsertsInPlace ==
    [][(resp'.op = "rate" /\ resp'.status = 200) =>
        \A u \in Users, pid \in StoredIds, value \in RateValues :
          RateProject(u, pid, value) =>
             LET old == projects[pid].ratings
                 new == projects'[pid].ratings
             IN
             IF u \in Raters(old)
             THEN /\ Len(new) = Len(old)
                  /\ \E i \in 1..Len(old) :
                        /\ old[i].userId = u
                        /\ new[i] = [userId |-> u, value |-> value]
                        /\ \A j \in 1..Len(old) : j # i => new[j] = old[j]
             ELSE new = Append(old, [userId |-> u, value |-> value])]_vars

\* C2: a rate request of an authenticated user with a number outside [1,5]
\* is answered 400 and stores nothing, and every stored rating value is a
\* number from 1 to 5.
RatingRangeEnforced ==
    /\ [](\A pid \in StoredIds : \A i \in 1..Len(projects[pid].ratings) :
             /\ IsSome(projects[pid].ratings[i].value)
             /\ Get(projects[pid].ratings[i].value) \in 1..5)
    /\ [][resp'.op = "rate" =>
             \A u \in Users, pid \in ProjectIds, value \in RateValues :
                (IsSome(value) /\ Get(value) \notin 1..5 /\ RateProject(u, pid, value)) =>
                   /\ resp'.status = 400
                   /\ UNCHANGED <<projects, profiles>>]_vars

\* C2 witness: a rate request was answered 400 while a rated project is stored.
RatingRefusedWitness ==
    /\ resp.op = "rate"
    /\ resp.status = 400
    /\ \E pid \in StoredIds : Len(projects[pid].ratings) > 0

\* Sum of the values of a ratings list, by position
RECURSIVE TotalUpTo(_, _)
TotalUpTo(ratings, k) ==
    IF k = 0 THEN 0 ELSE Get(ratings[k].value) + TotalUpTo(ratings, k - 1)

\* tenths/10 is the mean of the values rounded to one decimal (no tenth is
\* nearer to the mean), and 0 for no ratings
IsRoundedMean(tenths, ratings) ==
    IF Len(ratings) = 0 THEN tenths = 0
    ELSE LET n == Len(ratings)
             d == n * tenths - 10 * TotalUpTo(ratings, n)
         IN 2 * d <= n /\ 2 * d >= -n

Members(list) == {list[i] : i \in 1..Len(list)}

\* C4: two like requests in a row by one user leave a project's likedBy
\* membership and like count as they were, two favorite requests its
\* favoritedBy membership; one request flips the user's membership and
\* reports the new membership.
ToggleTwiceRestores ==
    \A pid \in StoredIds : \A u \in Users :
        LET p == projects[pid]
            once == LikeEffect(p, u)
            twice == LikeEffect(once, u)
            fav == FavoriteEffect(p, u)
        IN
        /\ Members(twice.likedBy) = Members(p.likedBy)
        /\ Len(twice.likedBy) = Len(p.likedBy)
        /\ twice.likes = p.likes
        /\ Members(FavoriteEffect(fav, u).favoritedBy) = Members(p.favoritedBy)
        /\ (u \in Members(once.likedBy)) = (u \notin Members(p.likedBy))
        /\ (u \in Members(fav.favoritedBy)) = (u \notin Members(p.favoritedBy))

\* C5: no project's likedBy or favoritedBy holds a subject-id twice.
NoDuplicateMembers ==
    \A pid \in StoredIds :
        /\ Cardinality(Members(projects[pid].likedBy)) = Len(projects[pid].likedBy)
        /\ Cardinality(Members(projects[pid].favoritedBy))
              = Len(projects[pid].favoritedBy)

\* Sum of the likedBy lengths of the projects of a user
RECURSIVE LikersOfOwner(_, _)
LikersOfOwner(ps, u) ==
    IF ps = <<>> THEN 0
    ELSE (IF Head(ps).userId = Some(u) THEN Len(Head(ps).likedBy) ELSE 0)
         + LikersOfOwner(Tail(ps), u)

\* C6: a project's like count is the number of subject-ids in its likedBy,
\* in the stored likes field and in the likes every read path returns (list,
\* single project, my projects, my favorites, a profile's totalLikes).
LikeCountIsLikedBySize ==
    /\ \A pid \in StoredIds :
          LET p == projects[pid] IN
          /\ p.likes = Len(p.likedBy)
          /\ \A r \in Requesters :
                /\ ListView(p, r).likes = Len(p.likedBy)
                /\ SingleView(p, r).likes = Len(p.likedBy)
          /\ \A u \in Users :
                /\ MyView(p, u).likes = Len(p.likedBy)
                /\ FavoritesView(p, u).likes = Len(p.likedBy)
    /\ \A u \in Users : TotalLikes(projects, u) = LikersOfOwner(projects, u)


\* The fields an update request may alter
Content(p) == <<p.title, p.description, p.tags, p.githubLink, p.liveDemo>>

\* ownerId is the creator's verified subject-id and never changes; the
\* content changes only by a successful update of the owner; an update by
\* another user is answered 403 and changes nothing.
OwnerRules ==
    /\ [][\A pid \in StoredIds :
             /\ pid <= Len(projects')
             /\ projects'[pid].userId = projects[pid].userId]_vars
    /\ [][(resp'.op = "createProject" /\ resp'.status = 201) =>
             \A cred \in Credentials, body \in CreateBodies :
                CreateProject(cred, body) =>
                   /\ cred \in Users
                   /\ projects'[Len(projects')].userId = Some(cred)]_vars
    /\ [][\A pid \in StoredIds :
             Content(projects'[pid]) # Content(projects[pid]) =>
                /\ resp'.op = "updateProject"
                /\ resp'.status = 200
                /\ \E u \in Users, body \in UpdateBodies :
                      /\ projects[pid].userId = Some(u)
                      /\ UpdateProject(u, pid, body)]_vars
    /\ [][resp'.op = "updateProject" =>
             \A u \in Users, pid \in StoredIds, body \in UpdateBodies :
                (projects[pid].userId # Some(u) /\ UpdateProject(u, pid, body)) =>
                   /\ resp'.status = 403
                   /\ UNCHANGED <<projects, profiles>>]_vars

\* C7 as claimed: OwnerRules, and every update of the owner succeeds with
\* the persisted fields equal to the fields of the request.
OwnerUpdatePersistsInput ==
    /\ OwnerRules
    /\ [][resp'.op = "updateProject" =>
             \A u \in Users, pid \in StoredIds, body \in UpdateBodies :
                (projects[pid].userId = Some(u) /\ UpdateProject(u, pid, body)) =>
                   /\ resp'.status = 200
                   /\ projects'[pid].title = body.title
                   /\ projects'[pid].description = body.description
                   /\ IsSome(body.tags) => projects'[pid].tags = Get(body.tags)
                   /\ IsSome(body.githubLink) =>
                         projects'[pid].githubLink = body.githubLink
                   /\ IsSome(body.liveDemo) =>
                         projects'[pid].liveDemo = body.liveDemo]_vars

\* A string of a request as a trimmed path persists it
Trimmed(o) == IF IsSome(o) THEN Some(Trim(Get(o))) ELSE None

\* C7 as amended: OwnerRules, and an update of the owner whose title is
\* non-empty after trimming succeeds and persists title, description,
\* githubLink and liveDemo trimmed of surrounding whitespace and the tags as
\* given (absent tags as the empty list, an absent link as the empty string);
\* an update of the owner without such a title is answered 500 and changes
\* nothing.
OwnerUpdatePersistsTrimmedInput ==
    /\ OwnerRules
    /\ [][resp'.op = "updateProject" =>
             \A u \in Users, pid \in StoredIds, body \in UpdateBodies :
                (projects[pid].userId = Some(u) /\ UpdateProject(u, pid, body)) =>
                   IF IsSome(body.title) /\ Trim(Get(body.title)) # EmptyStr
                   THEN /\ resp'.status = 200
                        /\ projects'[pid].title = Trimmed(body.title)
                        /\ projects'[pid].description = Trimmed(body.description)
                        /\ projects'[pid].tags =
                              (IF IsSome(body.tags) THEN Get(body.tags) ELSE <<>>)
                        /\ projects'[pid].githubLink =
                              (IF IsSome(body.githubLink) THEN Trimmed(body.githubLink)
                               ELSE Some(EmptyStr))
                        /\ projects'[pid].liveDemo =
                              (IF IsSome(body.liveDemo) THEN Trimmed(body.liveDemo)
                               ELSE Some(EmptyStr))
                        /\ \A other \in StoredIds :
                              other # pid => projects'[other] = projects[other]
                   ELSE /\ resp'.status = 500
                        /\ UNCHANGED <<projects, profiles>>]_vars

\* C7 witness: the owner's update with padded strings was stored trimmed.
OwnerUpdateWitness ==
    /\ resp.op = "updateProject"
    /\ resp.status = 200
    /\ \E pid \in StoredIds :
          /\ projects[pid].title = Some(StrA)
          /\ projects[pid].description = Some(EmptyStr)
          /\ projects[pid].githubLink = Some(StrA)
          /\ projects[pid].liveDemo = Some(EmptyStr)

\* The _ids of a comment list, and the list without the comment cid
CommentIdsOf(comments) == {comments[i].id : i \in 1..Len(comments)}
RECURSIVE Without(_, _)
Without(comments, cid) ==
    IF comments = <<>> THEN <<>>
    ELSE IF Head(comments).id = cid THEN Without(Tail(comments), cid)
         ELSE <<Head(comments)>> \o Without(Tail(comments), cid)

HasCompleteProfile(u) ==
    /\ IsSome(profiles[u])
    /\ Trim(Get(profiles[u]).name) # EmptyStr
    /\ Trim(Get(profiles[u]).bio) # EmptyStr

\* A project is stored only by a create request of a user whose profile is
\* complete at that moment, with that profile's name and bio as authorName
\* and authorBio; a create request of a user without a complete profile is
\* answered 403 and stores nothing; the authorName and authorBio of a stored
\* project never change.
AuthorRules ==
    /\ [][Len(projects') # Len(projects) =>
             /\ Len(projects') = Len(projects) + 1
             /\ resp'.op = "createProject"
             /\ resp'.status = 201
             /\ \E u \in Users :
                   /\ HasCompleteProfile(u)
                   /\ \E body \in CreateBodies : CreateProject(u, body)
                   /\ projects'[Len(projects')].authorName = Get(profiles[u]).name
                   /\ projects'[Len(projects')].authorBio = Get(profiles[u]).bio]_vars
    /\ [][resp'.op = "createProject" =>
             \A u \in Users :
                ~HasCompleteProfile(u) =>
                   \A body \in CreateBodies :
                      CreateProject(u, body) =>
                         /\ resp'.status = 403
                         /\ UNCHANGED <<projects, profiles>>]_vars
    /\ [][\A pid \in StoredIds :
             /\ projects'[pid].authorName = projects[pid].authorName
             /\ projects'[pid].authorBio = projects[pid].authorBio]_vars

\* C9 as claimed: AuthorRules, and every create request of a user whose
\* profile is complete succeeds.
CreateSucceedsWhenProfileComplete ==
    /\ AuthorRules
    /\ [][resp'.op = "createProject" =>
             \A u \in Users :
                HasCompleteProfile(u) =>
                   \A body \in CreateBodies :
                      CreateProject(u, body) =>
                         /\ resp'.status = 201
                         /\ Len(projects') = Len(projects) + 1]_vars

\* A body the project schema accepts: a title that is non-empty after
\* trimming, and every rating it carries with a value from 1 to 5.
AcceptableBody(body) ==
    /\ IsSome(body.title)
    /\ Trim(Get(body.title)) # EmptyStr
    /\ IsSome(body.ratings) =>
          \A i \in 1..Len(Get(body.ratings)) :
             /\ IsSome(Get(body.ratings)[i].value)
             /\ Get(Get(body.ratings)[i].value) \in 1..5

\* C9 as amended: AuthorRules, and a create request of a user whose profile
\* is complete succeeds when its body has a title that is non-empty after
\* trimming and only ratings from 1 to 5; with any other body it is answered
\* 500 and stores nothing.
CreateSucceedsWhenProfileCompleteAndBodyValid ==
    /\ AuthorRules
    /\ [][resp'.op = "createProject" =>
             \A u \in Users :
                HasCompleteProfile(u) =>
                   \A body \in CreateBodies :
                      CreateProject(u, body) =>
                         IF AcceptableBody(body)
                         THEN /\ resp'.status = 201
                              /\ Len(projects') = Len(projects) + 1
                              /\ SubSeq(projects', 1, Len(projects)) = projects
                         ELSE /\ resp'.status = 500
                              /\ UNCHANGED <<projects, profiles>>]_vars

\* C9 witness: the owner updated the profile after creating a project, and
\* the project still carries the name the profile had at creation.
AuthorSnapshotWitness ==
    /\ resp.op = "updateOwnProfile"
    /\ resp.status = 200
    /\ \E pid \in StoredIds, u \in Users :
          /\ projects[pid].userId = Some(u)
          /\ IsSome(profiles[u])
          /\ projects[pid].authorName # Get(profiles[u]).name
          /\ projects[pid].authorBio # Get(profiles[u]).bio

\* C10: the completeness flag of every stored profile tells whether name and
\* bio are non-empty after trimming, and the profile requests report it.
ProfileFlagMatches ==
    /\ \A u \in Users :
          IsSome(profiles[u]) =>
             ReadIsProfileComplete(Get(profiles[u]))
                = (IF HasCompleteProfile(u) THEN "true" ELSE "false")
    /\ (resp.op \in {"getOwnProfile", "updateOwnProfile"} /\ resp.status = 200) =>
          \E u \in Users :
             /\ IsSome(profiles[u])
             /\ resp.complete = (IF HasCompleteProfile(u) THEN "true" ELSE "false")


\* The value of the first rating entry of user u in ratings, 0 without one
RatingOf(ratings, u) ==
    LET mine == {i \in 1..Len(ratings) : ratings[i].userId = u} IN
    IF mine = {} THEN 0
    ELSE Get(ratings[CHOOSE i \in mine : \A j \in mine : i <= j].value)

\* What C11 expects of a view of project p computed for credential cred
FlagsMatch(view, p, cred) ==
    /\ view.likedByCurrentUser = (cred \in Users /\ cred \in Members(p.likedBy))
    /\ view.favoritedByCurrentUser
          = (cred \in Users /\ cred \in Members(p.favoritedBy))
    /\ view.userRating = (IF cred \in Users THEN RatingOf(p.ratings, cred) ELSE 0)

\* C11: the list and the single-project view report likedByCurrentUser and
\* favoritedByCurrentUser as the requester's membership of likedBy and
\* favoritedBy and userRating as the value of the requester's rating entry (0
\* without one), all false/0 without a valid credential; the my-projects view
\* reports likedByCurrentUser = true for every project it returns.
ViewFlagsMatchMembership ==
    /\ [](\A pid \in StoredIds, cred \in Credentials :
             LET requester == Requester(verifyFirebaseToken(cred)) IN
             /\ FlagsMatch(ListView(projects[pid], requester), projects[pid], cred)
             /\ FlagsMatch(SingleView(projects[pid], requester), projects[pid], cred)
             /\ cred \in Users => MyView(projects[pid], cred).likedByCurrentUser)
    /\ [][(resp'.op \in {"listProjects", "getProject"} /\ resp'.status = 200) =>
             \A cred \in Credentials :
                (\/ \E query \in ReadQueries : ListProjects(cred, query)
                 \/ \E pid \in ProjectIds : GetProject(cred, pid)) =>
                   \A i \in 1..Len(resp'.items) :
                      FlagsMatch(resp'.items[i].view,
                                 projects[resp'.items[i].id], cred)]_vars
    /\ [][(resp'.op = "myProjects" /\ resp'.status = 200) =>
             \A cred \in Credentials :
                MyProjects(cred) =>
                   /\ {resp'.items[i].id : i \in 1..Len(resp'.items)}
                         = {pid \in StoredIds : projects[pid].userId = Some(cred)}
                   /\ \A i \in 1..Len(resp'.items) :
                         LET item == resp'.items[i] IN
                         /\ item.view.likedByCurrentUser
                         /\ item.view.favoritedByCurrentUser
                               = (cred \in Members(projects[item.id].favoritedBy))]_vars

\* C11 witness: my-projects reported likedByCurrentUser for a project whose
\* owner is not in likedBy.
OwnProjectShownLikedWitness ==
    /\ resp.op = "myProjects"
    /\ resp.status = 200
    /\ \E i \in 1..Len(resp.items) :
          /\ resp.items[i].view.likedByCurrentUser
          /\ \E u \in Users :
                /\ projects[resp.items[i].id].userId = Some(u)
                /\ u \notin Members(projects[resp.items[i].id].likedBy)


\* The credentials that verify to no user: absent, or invalid
Unverified == Credentials \ Users

\* The operations that require a verified requester
GuardedOps ==
    {"createProject", "updateProject", "like", "favorite", "rate", "postComment",
     "deleteComment", "updateOwnProfile", "myProjects", "myFavorites"}

\* Some request of operation op is made with credential cred in this step
RequestWith(op, cred) ==
    CASE op = "createProject" -> \E body \in CreateBodies : CreateProject(cred, body)
      [] op = "updateProject" ->
            \E pid \in ProjectIds, body \in UpdateBodies : UpdateProject(cred, pid, body)
      [] op = "like" -> \E pid \in ProjectIds : LikeProject(cred, pid)
      [] op = "favorite" -> \E pid \in ProjectIds : FavoriteProject(cred, pid)
      [] op = "rate" ->
            \E pid \in ProjectIds, value \in RateValues : RateProject(cred, pid, value)
      [] op = "postComment" ->
            \E pid \in ProjectIds, text \in CommentTexts : PostComment(cred, pid, text)
      [] op = "deleteComment" ->
            \E pid \in ProjectIds, cid \in CommentIds : DeleteComment(cred, pid, cid)
      [] op = "updateOwnProfile" ->
            \E body \in ProfileBodies : UpdateOwnProfile(cred, body)
      [] op = "getOwnProfile" -> GetOwnProfile(cred)
      [] op = "myProjects" -> MyProjects(cred)
      [] op = "myFavorites" -> MyFavorites(cred)
      [] op = "listProjects" -> \E query \in ReadQueries : ListProjects(cred, query)
      [] op = "getProject" -> \E pid \in ProjectIds : GetProject(cred, pid)
      [] op = "getComments" -> \E pid \in ProjectIds : GetComments(cred, pid)
      [] OTHER -> FALSE

\* C12: a create, update, like, favorite, rate, comment, comment-delete or
\* profile-update request and a my-projects or my-favorites read without a
\* valid credential is answered 401 and leaves projects and profiles as they
\* were; the project list, the single project and the comments are served
\* without a valid credential, never 401, with the flags of an anonymous
\* requester, and an invalid credential is served exactly as an absent one.
UnverifiedRequestsRefused ==
    /\ [][resp'.op \in GuardedOps =>
             \A cred \in Unverified :
                RequestWith(resp'.op, cred) =>
                   /\ resp'.status = 401
                   /\ UNCHANGED <<projects, profiles>>]_vars
    /\ [][resp'.op \in {"listProjects", "getProject", "getComments"} =>
             \A cred \in Unverified :
                RequestWith(resp'.op, cred) =>
                   /\ resp'.status \in {200, 404}
                   /\ UNCHANGED <<projects, profiles>>
                   /\ RequestWith(resp'.op, "none")
                   /\ resp'.op \in {"listProjects", "getProject"} =>
                         \A i \in 1..Len(resp'.items) :
                            /\ ~resp'.items[i].view.likedByCurrentUser
                            /\ ~resp'.items[i].view.favoritedByCurrentUser
                            /\ resp'.items[i].view.userRating = 0]_vars
    /\ [][\A cred \in Unverified, pid \in StoredIds :
             /\ GetProject(cred, pid) => resp'.status = 200
             /\ GetComments(cred, pid) => resp'.status = 200
             /\ (\E query \in ReadQueries : ListProjects(cred, query)) =>
                   /\ resp'.status = 200
                   /\ resp'.totalProjects = Len(projects)]_vars

\* C12 witness: a guarded request on a stored project was answered 401.
UnverifiedRefusedWitness ==
    /\ resp.op \in {"updateProject", "like", "favorite", "rate", "postComment",
                    "deleteComment", "myProjects", "myFavorites"}
    /\ resp.status = 401
    /\ Len(projects) > 0

\* A further witness: the list was served to a requester who is reported to
\* like nothing although the listed project is liked by someone.
AnonymousListWitness ==
    /\ resp.op = "listProjects"
    /\ resp.status = 200
    /\ \E i \in 1..Len(resp.items) :
          /\ ~resp.items[i].view.likedByCurrentUser
          /\ projects[resp.items[i].id].likedBy # <<>>


\* The list request of this step has the query parameters page and limit
ListedWith(page, limit) ==
    \E cred \in Credentials : ListProjects(cred, [page |-> page, limit |-> limit])

\* The response lists count projects, from the 0-indexed position first of
\* the order newest first (the newest project has the greatest _id)
ListsPositions(r, first, count) ==
    /\ Len(r.items) = count
    /\ \A i \in 1..count : r.items[i].id = Len(projects) - (first + i - 1)

\* Without page and limit the list request behaves as with page=1, limit=9.
ListDefaults ==
    [][resp'.op = "listProjects" =>
          (ListedWith(None, None) <=> ListedWith(Some(<<"1">>), Some(<<"9">>)))]_vars

\* C13 as claimed: of 20 projects, page=2 and limit=9 report totalPages = 3
\* and totalProjects = 20 and list the 0-indexed positions 10 to 18, newest
\* first; omitted page and limit behave as page=1, limit=9.
PageTwoListsTenToEighteen ==
    /\ ListDefaults
    /\ [][(resp'.op = "listProjects" /\ Len(projects) = 20
             /\ ListedWith(Some(<<"2">>), Some(<<"9">>))) =>
             /\ resp'.status = 200
             /\ resp'.totalPages = 3
             /\ resp'.totalProjects = 20
             /\ ListsPositions(resp', 10, 9)]_vars

\* C13 as amended: of 20 projects, page=2 and limit=9 report totalPages = 3
\* and totalProjects = 20 and list the 0-indexed positions 9 to 17 (the 10th
\* to the 18th project), newest first; omitted page and limit behave as
\* page=1, limit=9.
PageTwoListsNineToSeventeen ==
    /\ ListDefaults
    /\ [][(resp'.op = "listProjects" /\ Len(projects) = 20
             /\ ListedWith(Some(<<"2">>), Some(<<"9">>))) =>
             /\ resp'.status = 200
             /\ resp'.currentPage = 2
             /\ resp'.totalPages = 3
             /\ resp'.totalProjects = 20
             /\ ListsPositions(resp', 9, 9)]_vars

\* C13 witness: the second page of 9 of 20 projects has been served.
PageTwoWitness ==
    /\ Len(projects) = 20
    /\ resp.op = "listProjects"
    /\ resp.status = 200
    /\ resp.currentPage = 2
    /\ resp.totalPages = 3
    /\ Len(resp.items) = 9


\* The messages of the failures a handler can catch
FailureMessages ==
    {<<"Project validation failed", path>> :
        path \in {"title", "userId", "comments.text", "ratings.value",
                  "averageRating"}}
       \cup {DuplicateKeyMessage, NegativeSkipMessage}

\* C14: a failure caught in a handler is answered 500, and the body of a 500
\* response holds no text of the failure that was caught.
NoFailureDetailInResponse ==
    resp.status = 500 =>
       /\ resp.error \notin FailureMessages
       /\ \A i \in 1..Len(resp.error) :
             \A message \in FailureMessages :
                \A j \in 1..Len(message) : resp.error[i] # message[j]


\* The request i was answered 200, and it is the only request of its user
\* of its kind
OnlySuccess(i, kind) ==
    /\ inflight[i].kind = kind
    /\ inflight[i].pc = "done"
    /\ inflight[i].reply.status = 200
    /\ \A k \in 1..Len(inflight) :
          (k # i /\ inflight[k].kind = kind) => inflight[k].userId # inflight[i].userId

\* Two requests of one kind by different users that loaded the same
\* document of one project and were both answered 200
BothSucceeded(i, j, kind) ==
    /\ i # j
    /\ OnlySuccess(i, kind)
    /\ OnlySuccess(j, kind)
    /\ inflight[i].pid = inflight[j].pid
    /\ inflight[i].project = inflight[j].project
    /\ inflight[i].version = inflight[j].version

\* C15 as claimed: of two like requests of different users, or two rate
\* requests of different raters, that loaded the same document and were both
\* answered with success, the stored project holds the entry of only one.
RaceLosesAnEntry ==
    \A i, j \in 1..Len(inflight) :
       LET p == projects[inflight[i].pid] IN
       /\ (BothSucceeded(i, j, "like") /\ inflight[i].reply.flag
              /\ inflight[j].reply.flag)
             => ~({inflight[i].userId, inflight[j].userId} \subseteq Members(p.likedBy))
       /\ BothSucceeded(i, j, "rate")
             => ~(/\ RatingOf(p.ratings, inflight[i].userId) = Get(inflight[i].value)
                  /\ RatingOf(p.ratings, inflight[j].userId) = Get(inflight[j].value))

\* C15 as amended: overlapping like or rate requests of different users lose
\* no entry: a user whose only like request was answered 200 is in likedBy
\* exactly if the response says liked, and a rater whose only rate request
\* was answered 200 has an entry with the value of the request. What the
\* overlap loses is the derived field: likes and averageRating are the ones
\* of the request that saved last, computed from the document it loaded.
RaceKeepsEntries ==
    \A i \in 1..Len(inflight) :
       LET r == inflight[i]
           p == projects[r.pid]
       IN
       /\ OnlySuccess(i, "like") =>
             /\ (r.userId \in Members(p.likedBy)) = r.reply.flag
             /\ p.likes \in {inflight[k].reply.likes : k \in 1..Len(inflight)}
       /\ OnlySuccess(i, "rate") =>
             /\ RatingOf(p.ratings, r.userId) = Get(r.value)
             /\ Get(p.averageRating)
                   \in {inflight[k].reply.averageRating : k \in 1..Len(inflight)}

\* C15 witness: two like requests of different users loaded the same
\* document and were both answered 200; both users are in likedBy, and the
\* stored like count is the one of a single request.
RaceLosesLikeCountWitness ==
    \E i, j \in 1..Len(inflight) :
       /\ BothSucceeded(i, j, "like")
       /\ inflight[i].reply.flag
       /\ inflight[j].reply.flag
       /\ LET p == projects[inflight[i].pid] IN
          /\ {inflight[i].userId, inflight[j].userId} \subseteq Members(p.likedBy)
          /\ p.likes < Len(p.likedBy)

\* Likewise for two raters: both entries are stored, and the stored average
\* is not the average of the stored ratings.
RaceLosesAverageWitness ==
    \E i, j \in 1..Len(inflight) :
       /\ BothSucceeded(i, j, "rate")
       /\ LET p == projects[inflight[i].pid] IN
          /\ RatingOf(p.ratings, inflight[i].userId) = Get(inflight[i].value)
          /\ RatingOf(p.ratings, inflight[j].userId) = Get(inflight[j].value)
          /\ Get(p.averageRating) # ViewAverage(p.ratings)


===========================================================================
